---- MODULE Spec2Model ----
(***************************************************************************)
(* Model of the nanthithad/ecom repository: the browser-driven UI test     *)
(* suite (session fixture, page objects, scenario tests, CSV data feed).   *)
(*                                                                         *)
(* Text is modelled as a sequence of symbols.  A symbol is a string: one   *)
(* of the characters the code treats specially (comma, double quote,       *)
(* apostrophe, CR, LF) or an ordinary symbol standing for a run of         *)
(* ordinary characters ("username", "a", ...).                             *)
(***************************************************************************)
EXTENDS Integers, Sequences, FiniteSets, TLC

VARIABLES
    file,        \* the row-data file: [exists |-> BOOLEAN, text |-> symbols]
    rowsWritten, \* the data rows the file was written from (<<>> for a raw file)
    origin,      \* "absent" | "raw" | "written": how the file came about
    csvPc,       \* "import" | "collected" | "aborted": parameterized_test.py's import
    test_data,   \* module global test_data: the list read_data returned
    importExc,   \* the exception the module import ended with, or "none"
    paramItems   \* the test instances pytest generated from test_data

csvVars == <<file, rowsWritten, origin, csvPc, test_data, importExc, paramItems>>

VARIABLES
    browser,     \* what the session's browser shows: page, form fields, menu, alert
    server,      \* the application under test: [auth, categories]
    call,        \* the page-object call made last: [op, a, b, pre]
    result       \* how it ended: [exc, ret, printed, submitted]

pageVars == <<browser, server, call, result>>

VARIABLES
    idx,         \* the test item the run is at (index into Items)
    pc,          \* where the run is: fixture lines, test body, teardown, "done"
    step,        \* the statement of the test body to execute next
    sessions,    \* every browser session started: [state, scope]
    fixtureValue,\* the session the driver fixture holds (0: none)
    clsDriver,   \* request.cls.driver of each test class (0: unset)
    pageObjects, \* the session each page object of the running test holds (0: none)
    outcomes,    \* pytest's report per item run so far
    loginLog     \* the credentials test_login_csv called login with, in order

runVars == <<idx, pc, step, sessions, fixtureValue, clsDriver, pageObjects,
             outcomes, loginLog>>

VARIABLES
    products,    \* the Product objects that exist
    order,       \* the Order: [order_id, items], an item refers to its product
    service,     \* the OrderService: [payment_gateway, shipping_service, discount_strategy]
    shopCall,    \* the last call on a product or on the order service
    shopRet,     \* what compute_total or checkout returned
    callsMade    \* the calls the last checkout made, in order

shopVars == <<products, order, service, shopCall, shopRet, callsMade>>

vars == <<csvVars, pageVars, runVars, shopVars>>

(***************************************************************************)
(* Bounds                                                                  *)
(***************************************************************************)
MaxBodyLen == 4   \* symbols after the header line in a raw file
MaxRows == 2      \* data rows in a written file
MaxCategories == 2   \* rows of the category table
MaxFieldLen == 3     \* symbols typed into one form field
MaxProducts == 1     \* products that exist at once
MaxItems == 2        \* items of an order

\* all sequences over S of length at most n
RECURSIVE SeqsUpTo(_, _)
SeqsUpTo(S, n) ==
    IF n = 0 THEN {<<>>}
    ELSE LET T == SeqsUpTo(S, n - 1)
         IN T \cup {Append(t, x) : t \in {u \in T : Len(u) = n - 1}, x \in S}

(***************************************************************************)
(* The browser session and the application under test, as the page objects *)
(* drive them.  The application is taken to answer within the wait bounds: *)
(* a wait times out only when what it waits for never comes.               *)
(***************************************************************************)
\* Locators: each names the element its selector identifies.
EMAIL_FIELD == "Email"
PASSWORD_FIELD == "Password"
LOGIN_BUTTON == "login-button"
LOGOUT_BUTTON == "Logout"
catalog_menu == "Catalog"
categories_menu == "Categories"
products_menu == "Products"
CUSTOMERS_MENU == "Customers"
CUSTOMERS_ITEM == "CustomersList"
ADD_NEW_BUTTON == "AddNew"
category_name_field == "Name"
product_name_field == "Name"
product_price_field == "Price"
FIRSTNAME_FIELD == "FirstName"
LASTNAME_FIELD == "LastName"
GENDER_MALE == "Gender_Male"
GENDER_FEMALE == "Gender_Female"
DOB_FIELD == "DateOfBirth"
COMPANY_FIELD == "Company"
SAVE_BUTTON == "save"
SUCCESS_ALERT == "alert-success"

APOSTROPHE == "'"

AdminEmail == <<"admin@yourstore.com">>
AdminPassword == <<"admin">>
ValidCredentials == {<<AdminEmail, AdminPassword>>}

CustomerAdded == "The new customer has been added successfully."

FieldIds == {EMAIL_FIELD, PASSWORD_FIELD, category_name_field, product_price_field,
             FIRSTNAME_FIELD, LASTNAME_FIELD, DOB_FIELD, COMPANY_FIELD}

NoFields == [f \in FieldIds |-> <<>>]

ListPages == {"categoryList", "productList", "customerList"}

AdminPages == {"dashboard", "categoryCreate", "categoryEdit", "productCreate",
               "customerCreate"} \cup ListPages

\* driver.title of each page
Title(pg) ==
    CASE pg = "login" -> <<"Your store.", "Login">>
      [] pg = "dashboard" -> <<"Dashboard", "/", "nopCommerce administration">>
      [] pg = "categoryList" -> <<"Categories", "/", "nopCommerce administration">>
      [] pg = "categoryCreate" -> <<"Add a new category", "/", "nopCommerce administration">>
      [] pg = "categoryEdit" -> <<"Edit category details", "/", "nopCommerce administration">>
      [] pg = "productList" -> <<"Products", "/", "nopCommerce administration">>
      [] pg = "productCreate" -> <<"Add a new product", "/", "nopCommerce administration">>
      [] pg = "customerList" -> <<"Customers", "/", "nopCommerce administration">>
      [] pg = "customerCreate" -> <<"Add a new customer", "/", "nopCommerce administration">>
      [] OTHER -> <<>>

\* driver.current_url of each page: the host is admin-demo.nopcommerce.com
CurrentUrl(pg) ==
    CASE pg = "blank" -> <<"data:,">>
      [] pg = "login" -> <<"https://", "admin", "-demo.nopcommerce.com", "/login">>
      [] pg = "error" -> <<"chrome-error://chromewebdata/">>
      [] OTHER -> <<"https://", "admin", "-demo.nopcommerce.com", "/Admin/", pg>>

\* Python's `sub in s` on text
Contains(sub, s) ==
    \E i \in 0..(Len(s) - Len(sub)) : SubSeq(s, i + 1, i + Len(sub)) = sub

\* The elements the current page shows (visible and clickable).
Elements(br) ==
    (IF br.page = "login" THEN {EMAIL_FIELD, PASSWORD_FIELD, LOGIN_BUTTON} ELSE {})
    \cup (IF br.page \in AdminPages
            THEN {LOGOUT_BUTTON, catalog_menu, CUSTOMERS_MENU} ELSE {})
    \cup (IF br.page \in AdminPages /\ br.menu = catalog_menu
            THEN {categories_menu, products_menu} ELSE {})
    \cup (IF br.page \in AdminPages /\ br.menu = CUSTOMERS_MENU
            THEN {CUSTOMERS_ITEM} ELSE {})
    \cup (IF br.page \in ListPages THEN {ADD_NEW_BUTTON} ELSE {})
    \cup (IF br.alert # <<>> THEN {SUCCESS_ALERT} ELSE {})
    \cup (IF br.page \in {"categoryCreate", "categoryEdit"}
            THEN {category_name_field, SAVE_BUTTON} ELSE {})
    \cup (IF br.page = "productCreate"
            THEN {product_name_field, product_price_field, SAVE_BUTTON} ELSE {})
    \cup (IF br.page = "customerCreate"
            THEN {EMAIL_FIELD, PASSWORD_FIELD, FIRSTNAME_FIELD, LASTNAME_FIELD,
                  GENDER_MALE, GENDER_FEMALE, SAVE_BUTTON} \cup br.optional
            ELSE {})

\* A page freshly loaded.  An admin page asked for without an authenticated
\* session comes back as the login page; an unreachable application as an
\* error page.  The login page may come with the demo credentials filled in.
LoadPage(target, sv, env) ==
    LET pg == IF ~env.up THEN "error"
              ELSE IF target \in AdminPages /\ ~sv.auth THEN "login"
              ELSE target
    IN [page |-> pg,
        fields |-> IF pg = "login" /\ env.prefill
                     THEN [NoFields EXCEPT ![EMAIL_FIELD] = AdminEmail,
                                           ![PASSWORD_FIELD] = AdminPassword]
                     ELSE NoFields,
        gender |-> "none",
        alert |-> <<>>,
        editRow |-> 0,
        optional |-> IF pg = "customerCreate" THEN env.optional ELSE {},
        menu |-> "none"]

WithAlert(br, text) ==
    IF br.page \in ListPages THEN [br EXCEPT !.alert = <<"x", text>>] ELSE br

\* The selector edit_category builds by interpolating the name.
EditXPath(old_name) ==
    <<"//td[text()=", APOSTROPHE>> \o old_name
        \o <<APOSTROPHE, "]/following-sibling::td/a[contains(text(),'Edit')]">>

\* The string literal of the selector ends at the first apostrophe after its
\* opening one; what follows must be the rest of the path.
LiteralEnd(xp) == CHOOSE i \in 3..Len(xp) : xp[i] = APOSTROPHE /\ \A j \in 3..(i - 1) : xp[j] # APOSTROPHE

XPathValid(xp) == LiteralEnd(xp) = Len(xp) - 1

XPathLiteral(xp) == SubSeq(xp, 3, LiteralEnd(xp) - 1)

\* Rows of the category table whose name cell has exactly the literal as text.
MatchingRows(br, sv, xp) ==
    IF br.page = "categoryList"
        THEN {i \in 1..Len(sv.categories) : sv.categories[i] = XPathLiteral(xp)}
        ELSE {}

NoElement == [id |-> "none", row |-> 0]

\* The selenium calls the page objects make
DriverGet(url) == [c |-> "get", url |-> url]
WaitVisible(el) == [c |-> "wait_visible", el |-> el]
WaitClickable(el) == [c |-> "wait_clickable", el |-> el]
WaitTitleContains(text) == [c |-> "wait_title", text |-> text]
Find(el) == [c |-> "find", el |-> el]
FindXPath(xp) == [c |-> "find_xpath", xp |-> xp]
Click == [c |-> "click"]
Clear == [c |-> "clear"]
SendKeys(text) == [c |-> "send_keys", text |-> text]
ScrollIntoView == [c |-> "scroll"]
TryExceptTimeout(body, msg) == [c |-> "try", body |-> body, msg |-> msg]
ReturnIsDisplayed == [c |-> "ret_displayed"]
ReturnTextContains(text) == [c |-> "ret_text_contains", text |-> text]

\* WebDriverWait(driver, 10).until(visibility/clickable): TimeoutException when
\* the element never shows; driver.find_element: NoSuchElementException.
Lookup(w, el, onMissing) ==
    IF el \in Elements(w.br)
        THEN [w EXCEPT !.cur = [id |-> el, row |-> 0]]
        ELSE [w EXCEPT !.exc = onMissing]

LookupXPath(w, xp) ==
    IF ~XPathValid(xp) THEN [w EXCEPT !.exc = "InvalidSelectorException"]
    ELSE LET rows == MatchingRows(w.br, w.sv, xp)
         IN IF rows = {} THEN [w EXCEPT !.exc = "NoSuchElementException"]
            ELSE [w EXCEPT !.cur = [id |-> "Edit",
                                    row |-> CHOOSE i \in rows : \A j \in rows : i <= j]]

\* What the application does on a click.
ClickElement(w, env) ==
    LET id == w.cur.id
        br == w.br
        sv == w.sv
    IN CASE id = LOGIN_BUTTON ->
              LET ok == <<br.fields[EMAIL_FIELD], br.fields[PASSWORD_FIELD]>>
                            \in ValidCredentials /\ env.up
                  sv2 == [sv EXCEPT !.auth = sv.auth \/ ok]
              IN [w EXCEPT
                    !.submitted = Append(w.submitted,
                        [form |-> "login", email |-> br.fields[EMAIL_FIELD],
                         password |-> br.fields[PASSWORD_FIELD], name |-> <<>>]),
                    !.sv = sv2,
                    !.br = LoadPage(IF ok THEN "dashboard" ELSE "login", sv2, env)]
         [] id = LOGOUT_BUTTON ->
              LET sv2 == [sv EXCEPT !.auth = sv.auth /\ ~env.up]
              IN [w EXCEPT !.sv = sv2, !.br = LoadPage("login", sv2, env)]
         [] id \in {catalog_menu, CUSTOMERS_MENU} ->
              [w EXCEPT !.br.menu = id]
         [] id = categories_menu -> [w EXCEPT !.br = LoadPage("categoryList", sv, env)]
         [] id = products_menu -> [w EXCEPT !.br = LoadPage("productList", sv, env)]
         [] id = CUSTOMERS_ITEM -> [w EXCEPT !.br = LoadPage("customerList", sv, env)]
         [] id = ADD_NEW_BUTTON ->
              [w EXCEPT !.br = LoadPage(
                    CASE br.page = "categoryList" -> "categoryCreate"
                      [] br.page = "productList" -> "productCreate"
                      [] OTHER -> "customerCreate", sv, env)]
         [] id = "Edit" ->
              LET pg == LoadPage("categoryEdit", sv, env)
              IN [w EXCEPT !.br =
                    IF pg.page = "categoryEdit"
                        THEN [pg EXCEPT !.editRow = w.cur.row,
                                        !.fields[category_name_field] =
                                            sv.categories[w.cur.row]]
                        ELSE pg]
         [] id = SAVE_BUTTON ->
              LET name == br.fields[category_name_field]
                  sub == [form |-> br.page, email |-> br.fields[EMAIL_FIELD],
                          password |-> br.fields[PASSWORD_FIELD], name |-> name]
                  w2 == [w EXCEPT !.submitted = Append(w.submitted, sub)]
              IN IF ~env.up \/ ~sv.auth THEN [w2 EXCEPT !.br = LoadPage(br.page, sv, env)]
                 ELSE CASE br.page = "categoryCreate" /\ name # <<>> ->
                            [w2 EXCEPT
                               !.sv.categories = Append(sv.categories, name),
                               !.br = WithAlert(LoadPage("categoryList", sv, env),
                                                "The new category has been added successfully.")]
                        [] br.page = "categoryEdit" /\ name # <<>> ->
                            [w2 EXCEPT
                               !.sv.categories[br.editRow] = name,
                               !.br = WithAlert(LoadPage("categoryList", sv, env),
                                                "The category has been updated successfully.")]
                        [] br.page = "productCreate" /\ name # <<>> ->
                            [w2 EXCEPT
                               !.br = WithAlert(LoadPage("productList", sv, env),
                                                "The new product has been added successfully.")]
                        [] br.page = "customerCreate" /\ sub.email # <<>> ->
                            [w2 EXCEPT
                               !.br = WithAlert(LoadPage("customerList", sv, env), env.msg)]
                        [] OTHER -> w2
         [] id = GENDER_MALE -> [w EXCEPT !.br.gender = "Male"]
         [] id = GENDER_FEMALE -> [w EXCEPT !.br.gender = "Female"]
         [] OTHER -> w

RECURSIVE Exec(_, _, _)
\* One selenium call.
Do(w, cmd, env) ==
    CASE cmd.c = "get" -> [w EXCEPT !.br = LoadPage(cmd.url, w.sv, env), !.cur = NoElement]
      [] cmd.c \in {"wait_visible", "wait_clickable"} ->
            Lookup(w, cmd.el, "TimeoutException")
      [] cmd.c = "find" -> Lookup(w, cmd.el, "NoSuchElementException")
      [] cmd.c = "find_xpath" -> LookupXPath(w, cmd.xp)
      [] cmd.c = "wait_title" ->
            IF Contains(cmd.text, Title(w.br.page)) THEN w
            ELSE [w EXCEPT !.exc = "TimeoutException"]
      [] cmd.c = "click" -> ClickElement(w, env)
      [] cmd.c = "clear" ->
            IF w.cur.id \in FieldIds THEN [w EXCEPT !.br.fields[w.cur.id] = <<>>] ELSE w
      [] cmd.c = "send_keys" ->
            IF w.cur.id \in FieldIds
                THEN [w EXCEPT !.br.fields[w.cur.id] = @ \o cmd.text]
                ELSE w
      [] cmd.c = "scroll" -> w
      [] cmd.c = "try" ->
            LET r == Exec(w, cmd.body, env)
            IN IF r.exc = "TimeoutException"
                   THEN [r EXCEPT !.exc = "none", !.printed = Append(r.printed, cmd.msg)]
                   ELSE r
      [] cmd.c = "ret_displayed" -> [w EXCEPT !.ret = "True"]
      [] cmd.c = "ret_text_contains" ->
            [w EXCEPT !.ret = IF Contains(cmd.text, w.br.alert) THEN "True" ELSE "False"]

\* A method body: the calls in order, up to the first exception.
Exec(w, cmds, env) ==
    IF cmds = <<>> \/ w.exc # "none" THEN w
    ELSE Exec(Do(w, Head(cmds), env), Tail(cmds), env)

(***************************************************************************)
(* Page objects: each method is the sequence of selenium calls it makes.   *)
(***************************************************************************)
\* LoginPage
open_login_page == <<DriverGet("login")>>

\* A login that does not wait for the dashboard after submitting.
login_without_wait(email, password) ==
    <<WaitVisible(EMAIL_FIELD), Clear,
      Find(EMAIL_FIELD), SendKeys(email),
      Find(PASSWORD_FIELD), Clear,
      Find(PASSWORD_FIELD), SendKeys(password),
      Find(LOGIN_BUTTON), Click>>

\* A login that types into the fields as it finds them.
login_without_clear(email, password) ==
    <<WaitVisible(EMAIL_FIELD),
      Find(EMAIL_FIELD), SendKeys(email),
      Find(PASSWORD_FIELD),
      Find(PASSWORD_FIELD), SendKeys(password),
      Find(LOGIN_BUTTON), Click,
      WaitTitleContains(<<"Dashboard">>)>>

login(email, password) ==
    <<WaitVisible(EMAIL_FIELD), Clear,
      Find(EMAIL_FIELD), SendKeys(email),
      Find(PASSWORD_FIELD), Clear,
      Find(PASSWORD_FIELD), SendKeys(password),
      Find(LOGIN_BUTTON), Click,
      WaitTitleContains(<<"Dashboard">>)>>

\* A logout that goes back to the login page by its address.
logout_by_address == <<WaitClickable(LOGOUT_BUTTON), DriverGet("login"), WaitVisible(LOGIN_BUTTON)>>

logout == <<WaitClickable(LOGOUT_BUTTON), Click, WaitVisible(LOGIN_BUTTON)>>

is_logged_in(br) == Contains(<<"Dashboard">>, Title(br.page))

is_logged_out(br) == Contains(<<"Login">>, Title(br.page))

\* CategoryPage
\* A navigation that gives up silently when the menu never shows.
navigate_to_categories_lenient ==
    <<TryExceptTimeout(<<WaitClickable(catalog_menu), Click,
                         WaitClickable(categories_menu), Click>>, "menu not found")>>

navigate_to_categories ==
    <<WaitClickable(catalog_menu), Click, WaitClickable(categories_menu), Click>>

add_category(name) ==
    <<WaitClickable(ADD_NEW_BUTTON), Click,
      WaitVisible(category_name_field), SendKeys(name),
      Find(SAVE_BUTTON), Click>>

edit_category(old_name, new_name) ==
    <<FindXPath(EditXPath(old_name)), Click,
      Find(category_name_field), Clear, SendKeys(new_name),
      Find(SAVE_BUTTON), Click>>

is_success_message_displayed == <<WaitVisible(SUCCESS_ALERT), ReturnIsDisplayed>>

\* ProductPage
navigate_to_products ==
    <<WaitClickable(catalog_menu), Click, WaitClickable(products_menu), Click>>

add_product(name, price) ==
    <<WaitClickable(ADD_NEW_BUTTON), Click,
      WaitVisible(product_name_field), SendKeys(name),
      Find(product_price_field), SendKeys(price),
      Find(SAVE_BUTTON), Click>>

\* AddCustomerPage
login_admin == open_login_page \o login(AdminEmail, AdminPassword)

navigate_to_add_customer ==
    <<WaitClickable(CUSTOMERS_MENU), Click,
      WaitClickable(CUSTOMERS_ITEM), Click,
      WaitClickable(ADD_NEW_BUTTON), Click>>

\* str.lower() on the gender argument
Lower(s) ==
    CASE s \in {"Male", "MALE", "male"} -> "male"
      [] s \in {"Female", "female"} -> "female"
      [] OTHER -> s

\* A fill that treats both optional fields in one try block.
fill_customer_details_one_try(email, password, firstname, lastname, gender, company, dob) ==
    <<WaitVisible(EMAIL_FIELD), SendKeys(email),
      Find(PASSWORD_FIELD), SendKeys(password),
      Find(FIRSTNAME_FIELD), SendKeys(firstname),
      Find(LASTNAME_FIELD), SendKeys(lastname),
      Find(IF Lower(gender) = "male" THEN GENDER_MALE ELSE GENDER_FEMALE), Click,
      TryExceptTimeout(<<WaitVisible(DOB_FIELD), SendKeys(dob),
                         WaitVisible(COMPANY_FIELD), SendKeys(company)>>,
                       "DOB field not visible, skipping DOB input."),
      Find(SAVE_BUTTON), ScrollIntoView>>

fill_customer_details(email, password, firstname, lastname, gender, company, dob) ==
    <<WaitVisible(EMAIL_FIELD), SendKeys(email),
      Find(PASSWORD_FIELD), SendKeys(password),
      Find(FIRSTNAME_FIELD), SendKeys(firstname),
      Find(LASTNAME_FIELD), SendKeys(lastname),
      Find(IF Lower(gender) = "male" THEN GENDER_MALE ELSE GENDER_FEMALE), Click,
      TryExceptTimeout(<<WaitVisible(DOB_FIELD), SendKeys(dob)>>,
                       "DOB field not visible, skipping DOB input."),
      TryExceptTimeout(<<WaitVisible(COMPANY_FIELD), SendKeys(company)>>,
                       "Company field not visible, skipping Company input."),
      Find(SAVE_BUTTON), ScrollIntoView>>

save_customer == <<WaitClickable(SAVE_BUTTON), Click>>

is_customer_added_successfully ==
    <<WaitVisible(SUCCESS_ALERT), ReturnTextContains(<<CustomerAdded>>)>>

(***************************************************************************)
(* Calls on the page objects of one live session                           *)
(***************************************************************************)
\* What the application may do during a call: hand out the login page with
\* the demo credentials filled in or not, show or not show each optional
\* field of the customer form.
Envs ==
    [up : {TRUE}, prefill : BOOLEAN, optional : SUBSET {DOB_FIELD, COMPANY_FIELD},
     msg : {CustomerAdded}]

\* the calls that can load the login page see it filled in or not
LoginEnvs == {env \in Envs : env.optional = {}}

\* the calls that open the customer form see it with or without optional fields
FormEnvs == {env \in Envs : ~env.prefill}

\* the calls that load neither
PlainEnvs == {env \in Envs : ~env.prefill /\ env.optional = {}}

Emails == {AdminEmail, <<"user@example.com">>}
Passwords == {AdminPassword, <<"secret">>}
CategoryNames == {<<"Test Category 123">>, <<"Updated Category 123">>,
                  <<"Men", APOSTROPHE, "s">>}
Genders == {"Female", "Male"}

\* the arguments of test_add_new_customer
TestCustomer ==
    [email |-> <<"test123@example.com">>, password |-> <<"test123">>,
     firstname |-> <<"Nandyy">>, lastname |-> <<"Devi">>,
     company |-> <<"TCS">>, dob |-> <<"10/23/2000">>]

\* the page a new browser session starts on
FreshBrowser ==
    LoadPage("blank", [auth |-> FALSE], [up |-> TRUE, prefill |-> FALSE, optional |-> {}])

NoCall == [op |-> "none", a |-> <<>>, b |-> <<>>]

NoResult == [exc |-> "none", ret |-> "none", printed |-> <<>>, submitted |-> <<>>]

Run(cmds, env) ==
    Exec([br |-> browser, sv |-> server, cur |-> NoElement, exc |-> "none",
          ret |-> "none", printed |-> <<>>, submitted |-> <<>>], cmds, env)

\* A page-object method called on the session: the browser and the application
\* move as its selenium calls make them, up to the first exception.
Invoke(cmds, env) ==
    \E w \in {Run(cmds, env)} :
       /\ \A f \in FieldIds : Len(w.br.fields[f]) <= MaxFieldLen
       /\ Len(w.sv.categories) <= MaxCategories
       /\ browser' = w.br
       /\ server' = w.sv
       /\ result' = [exc |-> w.exc, ret |-> w.ret, printed |-> w.printed,
                     submitted |-> w.submitted]
       /\ UNCHANGED <<csvVars, runVars, shopVars>>

Called(op, a, b) == [op |-> op, a |-> a, b |-> b]

PageIdle ==
    /\ browser = FreshBrowser
    /\ server = [auth |-> FALSE, categories |-> <<>>]
    /\ call = NoCall
    /\ result = NoResult

OpenLoginPage ==
    \E env \in LoginEnvs :
        /\ call' = Called("open_login_page", <<>>, <<>>)
        /\ Invoke(open_login_page, env)

Login ==
    \E env \in LoginEnvs, e \in Emails, p \in Passwords :
        /\ call' = Called("login", e, p)
        /\ Invoke(login(e, p), env)

Logout ==
    \E env \in LoginEnvs :
        /\ call' = Called("logout", <<>>, <<>>)
        /\ Invoke(logout, env)

NavigateToCategories ==
    \E env \in PlainEnvs :
        /\ call' = Called("navigate_to_categories", <<>>, <<>>)
        /\ Invoke(navigate_to_categories, env)

AddCategory ==
    \E env \in PlainEnvs, n \in CategoryNames :
        /\ call' = Called("add_category", n, <<>>)
        /\ Invoke(add_category(n), env)

EditCategory ==
    \E env \in PlainEnvs, old \in CategoryNames, new \in CategoryNames :
        /\ call' = Called("edit_category", old, new)
        /\ Invoke(edit_category(old, new), env)

IsSuccessMessageDisplayed ==
    \E env \in PlainEnvs :
        /\ call' = Called("is_success_message_displayed", <<>>, <<>>)
        /\ Invoke(is_success_message_displayed, env)

NavigateToProducts ==
    \E env \in PlainEnvs :
        /\ call' = Called("navigate_to_products", <<>>, <<>>)
        /\ Invoke(navigate_to_products, env)

AddProduct ==
    \E env \in PlainEnvs :
        /\ call' = Called("add_product", <<"Test Product 123">>, <<"99.99">>)
        /\ Invoke(add_product(<<"Test Product 123">>, <<"99.99">>), env)

LoginAdmin ==
    \E env \in LoginEnvs :
        /\ call' = Called("login_admin", <<>>, <<>>)
        /\ Invoke(login_admin, env)

NavigateToAddCustomer ==
    \E env \in FormEnvs :
        /\ call' = Called("navigate_to_add_customer", <<>>, <<>>)
        /\ Invoke(navigate_to_add_customer, env)

FillCustomerDetails ==
    \E env \in PlainEnvs, g \in Genders :
        /\ call' = Called("fill_customer_details", <<g>>, <<>>)
        /\ Invoke(fill_customer_details(TestCustomer.email, TestCustomer.password,
                                        TestCustomer.firstname, TestCustomer.lastname,
                                        g, TestCustomer.company, TestCustomer.dob), env)

SaveCustomer ==
    \E env \in PlainEnvs :
        /\ call' = Called("save_customer", <<>>, <<>>)
        /\ Invoke(save_customer, env)

IsCustomerAddedSuccessfully ==
    \E env \in PlainEnvs :
        /\ call' = Called("is_customer_added_successfully", <<>>, <<>>)
        /\ Invoke(is_customer_added_successfully, env)

(***************************************************************************)
(* Python's csv module, as CSVUtils.read_data uses it (dialect "excel",    *)
(* strict = False), and csv.DictReader on top of it.                       *)
(***************************************************************************)
COMMA == ","
QUOTE == "\""
LF == "\n"
CR == "\r"
EOL == "EOL"    \* the end-of-line marker the reader feeds after each line

IsNewline(c) == c = LF \/ c = CR

\* open(file_path, newline=''): lines end at "\n", "\r\n" or a lone "\r",
\* and the terminators are left in the text.
EndsLine(text, i) ==
    \/ text[i] = LF
    \/ text[i] = CR /\ (i = Len(text) \/ text[i + 1] # LF)

SaveField(p) == [p EXCEPT !.fields = Append(p.fields, p.field), !.field = <<>>]

AddChar(p, c) == [p EXCEPT !.field = Append(p.field, c)]

AfterNewline(c) == IF c = EOL THEN "START_RECORD" ELSE "EAT_CRNL"

StartField(p, c) ==
    IF IsNewline(c) \/ c = EOL
        THEN [SaveField(p) EXCEPT !.st = AfterNewline(c)]
    ELSE IF c = QUOTE THEN [p EXCEPT !.st = "IN_QUOTED_FIELD"]
    ELSE IF c = COMMA THEN [SaveField(p) EXCEPT !.st = "START_FIELD"]
    ELSE [AddChar(p, c) EXCEPT !.st = "IN_FIELD"]

\* parse_process_char of the reader: one state-machine step on symbol c.
ProcessChar(p, c) ==
    CASE p.st = "START_RECORD" ->
            IF c = EOL THEN p
            ELSE IF IsNewline(c) THEN [p EXCEPT !.st = "EAT_CRNL"]
            ELSE StartField(p, c)
      [] p.st = "START_FIELD" -> StartField(p, c)
      [] p.st = "IN_FIELD" ->
            IF IsNewline(c) \/ c = EOL
                THEN [SaveField(p) EXCEPT !.st = AfterNewline(c)]
            ELSE IF c = COMMA THEN [SaveField(p) EXCEPT !.st = "START_FIELD"]
            ELSE AddChar(p, c)
      [] p.st = "IN_QUOTED_FIELD" ->
            IF c = EOL THEN p
            ELSE IF c = QUOTE THEN [p EXCEPT !.st = "QUOTE_IN_QUOTED_FIELD"]
            ELSE AddChar(p, c)
      [] p.st = "QUOTE_IN_QUOTED_FIELD" ->
            IF c = QUOTE THEN [AddChar(p, c) EXCEPT !.st = "IN_QUOTED_FIELD"]
            ELSE IF c = COMMA THEN [SaveField(p) EXCEPT !.st = "START_FIELD"]
            ELSE IF IsNewline(c) \/ c = EOL
                THEN [SaveField(p) EXCEPT !.st = AfterNewline(c)]
            ELSE [AddChar(p, c) EXCEPT !.st = "IN_FIELD"]
      [] p.st = "EAT_CRNL" ->
            IF IsNewline(c) THEN p
            ELSE IF c = EOL THEN [p EXCEPT !.st = "START_RECORD"]
            ELSE [p EXCEPT !.err = TRUE]

\* A record is returned each time a line's end leaves the reader in START_RECORD.
EmitIfRecordDone(p) ==
    IF p.st = "START_RECORD"
        THEN [p EXCEPT !.recs = Append(p.recs, p.fields), !.fields = <<>>]
        ELSE p

AtLineEnd(p) == EmitIfRecordDone(ProcessChar(p, EOL))

\* End of input with strict = False: a field still open is saved and the record
\* returned; nothing is raised for a quote that was never closed.
AtEndOfInput(p) ==
    IF p.field # <<>> \/ p.st = "IN_QUOTED_FIELD"
        THEN [p EXCEPT !.recs = Append(p.recs, Append(p.fields, p.field)),
                       !.fields = <<>>, !.field = <<>>,
                       !.openQuote = (p.st = "IN_QUOTED_FIELD")]
        ELSE p

RECURSIVE ReaderFrom(_, _, _)
ReaderFrom(text, i, p) ==
    IF p.err THEN p
    ELSE IF i > Len(text) THEN AtEndOfInput(p)
    ELSE LET q == ProcessChar(p, text[i])
             last == i = Len(text)
         IN IF q.err THEN q
            ELSE IF EndsLine(text, i) \/ last
                THEN ReaderFrom(text, i + 1, AtLineEnd(q))
                ELSE ReaderFrom(text, i + 1, q)

\* csv.reader over the whole file: the list of rows, each a list of fields.
CsvReader(text) ==
    ReaderFrom(text, 1,
        [st |-> "START_RECORD", field |-> <<>>, fields |-> <<>>,
         recs |-> <<>>, err |-> FALSE, openQuote |-> FALSE])

(***************************************************************************)
(* A mapping (Python dict) is a sequence of entries in insertion order.    *)
(* A key is [none, s]: a string s, or None (the DictReader's restkey).     *)
(* A value is [t, s, l]: a string s, None (restval), or a list l.          *)
(***************************************************************************)
StrKey(s) == [none |-> FALSE, s |-> s]
NoneKey == [none |-> TRUE, s |-> <<>>]
StrVal(s) == [t |-> "str", s |-> s, l |-> <<>>]
NoneVal == [t |-> "none", s |-> <<>>, l |-> <<>>]
ListVal(l) == [t |-> "list", s |-> <<>>, l |-> l]

HasKey(d, k) == \E i \in 1..Len(d) : d[i].k = k

Get(d, k) == d[CHOOSE i \in 1..Len(d) : d[i].k = k].v

\* d[k] = v
Put(d, k, v) ==
    IF HasKey(d, k)
        THEN [i \in 1..Len(d) |-> IF d[i].k = k THEN [k |-> k, v |-> v] ELSE d[i]]
        ELSE Append(d, [k |-> k, v |-> v])

RECURSIVE ZipInto(_, _, _, _)
ZipInto(d, names, row, i) ==
    IF i > Len(names) \/ i > Len(row) THEN d
    ELSE ZipInto(Put(d, StrKey(names[i]), StrVal(row[i])), names, row, i + 1)

RECURSIVE RestInto(_, _, _)
RestInto(d, names, i) ==
    IF i > Len(names) THEN d
    ELSE RestInto(Put(d, StrKey(names[i]), NoneVal), names, i + 1)

\* DictReader.__next__ for one non-empty row.
DictRow(fieldnames, row) ==
    LET d == ZipInto(<<>>, fieldnames, row, 1)
        lf == Len(fieldnames)
        lr == Len(row)
    IN IF lf < lr THEN Put(d, NoneKey, ListVal(SubSeq(row, lf + 1, lr)))
       ELSE IF lf > lr THEN RestInto(d, fieldnames, lr + 1)
       ELSE d

RECURSIVE DictRows(_, _, _)
DictRows(fieldnames, recs, i) ==
    IF i > Len(recs) THEN <<>>
    ELSE IF recs[i] = <<>> THEN DictRows(fieldnames, recs, i + 1)
    ELSE <<DictRow(fieldnames, recs[i])>> \o DictRows(fieldnames, recs, i + 1)

\* The two ways the row-data file can be malformed.
UnterminatedQuote(text) == CsvReader(text).openQuote

RaggedRow(text) ==
    LET recs == CsvReader(text).recs
    IN \E i \in 2..Len(recs) : recs[i] # <<>> /\ Len(recs[i]) # Len(recs[1])

\* A reader that takes every row for a data row under fixed field names.
DictReaderHeaderAsData(text) ==
    LET r == CsvReader(text)
    IN IF r.err THEN [exc |-> "csv.Error", data |-> <<>>]
       ELSE [exc |-> "none",
             data |-> DictRows(<<<<"username">>, <<"password">>>>, r.recs, 1)]

\* list(csv.DictReader(csvfile)): the first row the reader returns is the header.
DictReader(text) ==
    LET r == CsvReader(text)
    IN IF r.err THEN [exc |-> "csv.Error", data |-> <<>>]
       ELSE IF r.recs = <<>> THEN [exc |-> "none", data |-> <<>>]
       ELSE [exc |-> "none", data |-> DictRows(r.recs[1], r.recs, 2)]

\* A read_data that validates the file (csv.Error on a malformed one).
read_data_validating(f) ==
    IF ~f.exists THEN [exc |-> "FileNotFoundError", data |-> <<>>]
    ELSE IF UnterminatedQuote(f.text) \/ RaggedRow(f.text)
        THEN [exc |-> "csv.Error", data |-> <<>>]
    ELSE DictReader(f.text)

\* CSVUtils.read_data(file_path)
read_data(f) ==
    IF ~f.exists THEN [exc |-> "FileNotFoundError", data |-> <<>>]
    ELSE DictReader(f.text)

(***************************************************************************)
(* Writing a row-data file: csv.writer with the same dialect               *)
(* (QUOTE_MINIMAL, doublequote, line terminator "\r\n").                   *)
(***************************************************************************)
NeedsQuote(s) == \E i \in 1..Len(s) : s[i] \in {COMMA, QUOTE, CR, LF}

RECURSIVE DoubleQuotes(_)
DoubleQuotes(s) ==
    IF s = <<>> THEN <<>>
    ELSE (IF Head(s) = QUOTE THEN <<QUOTE, QUOTE>> ELSE <<Head(s)>>)
             \o DoubleQuotes(Tail(s))

WriteField(s) ==
    IF NeedsQuote(s) THEN <<QUOTE>> \o DoubleQuotes(s) \o <<QUOTE>> ELSE s

WriteRow(row) == WriteField(row[1]) \o <<COMMA>> \o WriteField(row[2]) \o <<CR, LF>>

RECURSIVE WriteRows(_)
WriteRows(rows) ==
    IF rows = <<>> THEN <<>> ELSE WriteRow(Head(rows)) \o WriteRows(Tail(rows))

HeaderRow == <<<<"username">>, <<"password">>>>

WriteFile(rows) == WriteRow(HeaderRow) \o WriteRows(rows)

\* the header line of the suite's test_data.csv, as a text editor saves it
HeaderLine == <<"username", COMMA, "password", LF>>

(***************************************************************************)
(* ecommerce.py: amounts                                                   *)
(*                                                                         *)
(* A float is a whole number of units (cents for money once rounded,       *)
(* thousandths for a price as given, hundredths of a kilogram for a        *)
(* weight) or not-a-number.                                                *)
(***************************************************************************)
NaN == [nan |-> TRUE, n |-> 0]

Val(n) == [nan |-> FALSE, n |-> n]

\* a + b, a * k
Add(a, b) == IF a.nan \/ b.nan THEN NaN ELSE Val(a.n + b.n)

Mul(a, k) == IF a.nan THEN NaN ELSE Val(a.n * k)

\* a < 0, a >= 0: every comparison with not-a-number is False
Lt0(a) == ~a.nan /\ a.n < 0

Geq0(a) == ~a.nan /\ a.n >= 0

\* max(0.0, a): a only when a > 0.0
Max0(a) == IF ~a.nan /\ a.n > 0 THEN a ELSE Val(0)

\* How a value halfway between two cents is rounded depends on the binary
\* float next to it: it can fall either way.
Ties == {"down", "up"}

\* round(x, 2) of x = a.n / d cents: the nearest cent
Round2(a, d, tie) ==
    IF a.nan THEN NaN
    ELSE LET q == a.n \div d
             r == a.n % d
         IN Val(IF 2 * r < d THEN q
                ELSE IF 2 * r > d THEN q + 1
                ELSE IF tie = "up" THEN q + 1 ELSE q)

(***************************************************************************)
(* ecommerce.py: products                                                  *)
(***************************************************************************)
UpperChars == {"A", "B", "C", "D", "E", "F", "G", "H", "I", "J", "K", "L", "M",
               "O", "P", "T", "U", "S"}
LowerChars == {"a", "l", "o", "p", "t"}
DigitChars == {"0", "1", "2", "3", "4", "5", "6"}

\* str.isalnum(): at least one character and every character a letter or digit
isalnum(s) ==
    /\ Len(s) >= 1
    /\ \A i \in 1..Len(s) : s[i] \in UpperChars \cup LowerChars \cup DigitChars

\* str.isupper(): at least one letter and no lowercase letter
isupper(s) ==
    /\ \E i \in 1..Len(s) : s[i] \in UpperChars
    /\ \A i \in 1..Len(s) : s[i] \notin LowerChars

\* Product.validate_sku
validate_sku(sku) == isalnum(sku) /\ isupper(sku) /\ (6 <= Len(sku) /\ Len(sku) <= 12)

\* Product.price setter: v is given in thousandths
price_setter(self, v, tie) ==
    IF Lt0(v) THEN [exc |-> "ValueError", obj |-> self]
    ELSE [exc |-> "none", obj |-> [self EXCEPT !.price = Round2(v, 10, tie)]]

NoObject == [kind |-> "none", sku |-> <<>>, name |-> "", price |-> Val(0), size |-> Val(0)]

\* Product.__init__, with the subclass's own line after it:
\* PhysicalProduct sets weight_kg, DigitalProduct file_size_mb
NewProduct(kind, sku, name, price, size, tie) ==
    IF ~validate_sku(sku) THEN [exc |-> "ValueError", obj |-> NoObject]
    ELSE LET self == [kind |-> kind, sku |-> sku, name |-> name,
                      price |-> Val(0), size |-> Val(0)]
             r == price_setter(self, price, tie)
         IN IF r.exc # "none" THEN [exc |-> r.exc, obj |-> NoObject]
            ELSE [exc |-> "none", obj |-> [r.obj EXCEPT !.size = Max0(size)]]

\* shipping_weight()
shipping_weight(p) == IF p.kind = "Physical" THEN p.size ELSE Val(0)

Chars(w) ==
    CASE w = "LAPTOP1" -> <<"L", "A", "P", "T", "O", "P", "1">>
      [] w = "laptop1" -> <<"l", "a", "p", "t", "o", "p", "1">>
      [] w = "MOUSE01" -> <<"M", "O", "U", "S", "E", "0", "1">>
      [] w = "EBOOK01" -> <<"E", "B", "O", "O", "K", "0", "1">>
      [] w = "123456" -> <<"1", "2", "3", "4", "5", "6">>
      [] w = "ABC12" -> <<"A", "B", "C", "1", "2">>
      [] w = "ABCDEF" -> <<"A", "B", "C", "D", "E", "F">>
      [] w = "ABCDEFGHIJKL" -> <<"A", "B", "C", "D", "E", "F", "G", "H", "I", "J", "K", "L">>
      [] w = "ABCDEFGHIJKLM" ->
            <<"A", "B", "C", "D", "E", "F", "G", "H", "I", "J", "K", "L", "M">>
      [] w = "ABC 123" -> <<"A", "B", "C", " ", "1", "2", "3">>
      [] w = "" -> <<>>

\* the SKUs products are asked for: of every length around the limits, with
\* lowercase letters, without letters, with a space
Skus == {Chars(w) : w \in {"laptop1", "123456", "ABC12", "ABCDEF",
                           "ABCDEFGHIJKL", "ABCDEFGHIJKLM", "ABC 123", ""}}

\* the prices asked for, in thousandths: -0.001, 0, 0.004, 0.05, 12.996, nan
RawPrices == {Val(0 - 1), Val(0), Val(4), Val(50), Val(12996), NaN}

\* the weights asked for, in hundredths of a kilogram: -1.0, 0.08
RawWeights == {Val(0 - 100), Val(8)}

\* file_size_mb of the digital products
FileSize == Val(25)

(***************************************************************************)
(* ecommerce.py: orders, discounts, shipping, payment                      *)
(***************************************************************************)
\* OrderItem.line_total: round(price * quantity, 2); an item holds a
\* reference to its product
line_total(item, prods, tie) == Round2(Mul(prods[item.product].price, item.quantity), 1, tie)

RECURSIVE SumLineTotals(_, _, _)
\* sum(i.line_total() for i in items)
SumLineTotals(items, prods, tie) ==
    IF items = <<>> THEN Val(0)
    ELSE Add(SumLineTotals(SubSeq(items, 1, Len(items) - 1), prods, tie),
             line_total(items[Len(items)], prods, tie))

\* Order.subtotal
subtotal(ord, prods, tie) == Round2(SumLineTotals(ord.items, prods, tie), 1, tie)

\* The strategies, as their constructors leave them
NoDiscount == [type |-> "NoDiscount", x |-> 0]

\* percent = max(0.0, min(100.0, percent))
PercentageDiscount(percent) ==
    [type |-> "Percentage",
     x |-> IF percent > 100 THEN 100 ELSE IF percent < 0 THEN 0 ELSE percent]

\* amount_off = max(0.0, amount_off), in cents
FixedAmountDiscount(amount_off) ==
    [type |-> "FixedAmount", x |-> IF amount_off < 0 THEN 0 ELSE amount_off]

\* DiscountStrategy.apply
apply(strategy, amount, tie) ==
    CASE strategy.type = "NoDiscount" -> Round2(amount, 1, tie)
      [] strategy.type = "Percentage" ->
            \* round(amount * (1 - percent / 100.0), 2)
            Round2(Mul(amount, 100 - strategy.x), 100, tie)
      [] strategy.type = "FixedAmount" ->
            \* round(max(0.0, amount - amount_off), 2)
            Round2(Max0(Add(amount, Val(0 - strategy.x))), 1, tie)

RECURSIVE TotalWeight(_, _)
\* total_weight += weight * item.quantity, in hundredths of a kilogram
TotalWeight(items, prods) ==
    IF items = <<>> THEN Val(0)
    ELSE Add(TotalWeight(SubSeq(items, 1, Len(items) - 1), prods),
             Mul(shipping_weight(prods[items[Len(items)].product]),
                 items[Len(items)].quantity))

\* ShippingService.cost: round(50 + 30 * total_weight, 2) for Standard,
\* round(120 + 50 * total_weight, 2) for Express, in cents
cost(shipping, ord, prods, tie) ==
    IF shipping = "Standard"
        THEN Round2(Add(Val(5000), Mul(TotalWeight(ord.items, prods), 30)), 1, tie)
        ELSE Round2(Add(Val(12000), Mul(TotalWeight(ord.items, prods), 50)), 1, tie)

\* A total that forgets the discount.
compute_total_undiscounted(svc, ord, prods, tie) ==
    LET sub == subtotal(ord, prods, tie)
        discounted == apply(svc.discount_strategy, sub, tie)
        shipping == cost(svc.shipping_service, ord, prods, tie)
        grand_total == Round2(Add(sub, shipping), 1, tie)
    IN [subtotal |-> sub, discounted_subtotal |-> discounted,
        shipping_cost |-> shipping, grand_total |-> grand_total,
        shipping_method |-> svc.shipping_service]

\* OrderService.compute_total
compute_total(svc, ord, prods, tie) ==
    LET sub == subtotal(ord, prods, tie)
        discounted == apply(svc.discount_strategy, sub, tie)
        shipping == cost(svc.shipping_service, ord, prods, tie)
        grand_total == Round2(Add(discounted, shipping), 1, tie)
    IN [subtotal |-> sub, discounted_subtotal |-> discounted,
        shipping_cost |-> shipping, grand_total |-> grand_total,
        shipping_method |-> IF svc.shipping_service = "Standard" THEN "Standard"
                            ELSE "Express"]

\* PaymentGateway.process_payment: the transaction id it returns
process_payment(gateway, ord, amount, uuid) ==
    IF gateway = "Stripe" THEN <<"stripe_", uuid>> ELSE <<"cod_", ord.order_id>>

\* A checkout that charges the subtotal.
checkout_charging_subtotal(svc, ord, prods, tie, uuid) ==
    LET pricing == compute_total(svc, ord, prods, tie)
        tx_id == process_payment(svc.payment_gateway, ord, pricing.subtotal, uuid)
    IN [ret |-> [order_id |-> ord.order_id, transaction_id |-> tx_id, pricing |-> pricing],
        calls |-> <<[f |-> "compute_total", amount |-> Val(0)],
                    [f |-> "process_payment", amount |-> pricing.subtotal]>>,
        order |-> ord]

\* OrderService.checkout: what it returns, the calls it makes, the order after
checkout(svc, ord, prods, tie, uuid) ==
    LET pricing == compute_total(svc, ord, prods, tie)
        tx_id == process_payment(svc.payment_gateway, ord, pricing.grand_total, uuid)
    IN [ret |-> [order_id |-> ord.order_id, transaction_id |-> tx_id, pricing |-> pricing],
        calls |-> <<[f |-> "compute_total", amount |-> Val(0)],
                    [f |-> "process_payment", amount |-> pricing.grand_total]>>,
        order |-> ord]

\* The products of the orders: the three of seed_products with small prices
\* (12.99, 0.05, 9.99) and one whose price is not a number
Catalogue ==
    <<NewProduct("Physical", Chars("LAPTOP1"), "Ultrabook Pro 14", Val(12990), Val(140), "up").obj,
      NewProduct("Physical", Chars("MOUSE01"), "Ergo Mouse", Val(50), Val(8), "up").obj,
      NewProduct("Digital", Chars("EBOOK01"), "Mastering Python eBook", Val(9990), FileSize, "up").obj,
      NewProduct("Digital", Chars("ABCDEF"), "Unpriced", NaN, FileSize, "up").obj>>

Quantities == {0 - 1, 1, 2}

OrderItems == [product : 1..Len(Catalogue), quantity : Quantities]

Discounts == {NoDiscount, PercentageDiscount(10), PercentageDiscount(150),
              FixedAmountDiscount(500)}

Services ==
    [payment_gateway : {"Stripe", "CashOnDelivery"},
     shipping_service : {"Standard", "Express"},
     discount_strategy : Discounts]

NoService == [payment_gateway |-> "none", shipping_service |-> "none",
              discount_strategy |-> NoDiscount]

NoPricing == [subtotal |-> Val(0), discounted_subtotal |-> Val(0), shipping_cost |-> Val(0),
              grand_total |-> Val(0), shipping_method |-> "none"]

NoShopCall == [op |-> "none", sku |-> <<>>, v |-> Val(0), id |-> 0, exc |-> "none"]

NoShopRet == [order_id |-> "", transaction_id |-> <<>>, pricing |-> NoPricing]

ShopIdle ==
    /\ products = <<>>
    /\ order = [order_id |-> "ORD1", items |-> <<>>]
    /\ service = NoService
    /\ shopCall = NoShopCall
    /\ shopRet = NoShopRet
    /\ callsMade = <<>>

\* PhysicalProduct(sku, name, price, weight_kg)
NewPhysicalProduct ==
    /\ Len(products) < MaxProducts
    /\ \E sku \in Skus, v \in RawPrices, w \in RawWeights, tie \in Ties :
          \E r \in {NewProduct("Physical", sku, "x", v, w, tie)} :
             /\ products' = IF r.exc = "none" THEN Append(products, r.obj) ELSE products
             /\ shopCall' = [op |-> "new", sku |-> sku, v |-> v,
                             id |-> IF r.exc = "none" THEN Len(products) + 1 ELSE 0,
                             exc |-> r.exc]
    /\ UNCHANGED <<order, service, shopRet, callsMade, csvVars, pageVars, runVars>>

\* DigitalProduct(sku, name, price, file_size_mb)
NewDigitalProduct ==
    /\ Len(products) < MaxProducts
    /\ \E sku \in Skus, v \in RawPrices, tie \in Ties :
          \E r \in {NewProduct("Digital", sku, "x", v, FileSize, tie)} :
             /\ products' = IF r.exc = "none" THEN Append(products, r.obj) ELSE products
             /\ shopCall' = [op |-> "new", sku |-> sku, v |-> v,
                             id |-> IF r.exc = "none" THEN Len(products) + 1 ELSE 0,
                             exc |-> r.exc]
    /\ UNCHANGED <<order, service, shopRet, callsMade, csvVars, pageVars, runVars>>

\* product.price = v
SetPrice ==
    /\ \E i \in 1..Len(products), v \in RawPrices, tie \in Ties :
          \E r \in {price_setter(products[i], v, tie)} :
             /\ products' = [products EXCEPT ![i] = r.obj]
             /\ shopCall' = [op |-> "set_price", sku |-> <<>>, v |-> v, id |-> i,
                             exc |-> r.exc]
    /\ UNCHANGED <<order, service, shopRet, callsMade, csvVars, pageVars, runVars>>

\* service.compute_total(order)
ComputeTotal ==
    /\ \E tie \in Ties :
          shopRet' = [NoShopRet EXCEPT !.pricing = compute_total(service, order, products, tie)]
    /\ shopCall' = [NoShopCall EXCEPT !.op = "compute_total"]
    /\ callsMade' = <<>>
    /\ UNCHANGED <<products, order, service, csvVars, pageVars, runVars>>

\* what uuid.uuid4() may give
Uuids == {"3f2a", "9c41"}

\* service.checkout(order)
Checkout ==
    /\ \E tie \in Ties, uuid \in Uuids :
          \E r \in {checkout(service, order, products, tie, uuid)} :
             /\ shopRet' = r.ret
             /\ callsMade' = r.calls
             /\ order' = r.order
    /\ shopCall' = [NoShopCall EXCEPT !.op = "checkout"]
    /\ UNCHANGED <<products, service, csvVars, pageVars, runVars>>

(***************************************************************************)
(* The pytest run: the driver fixture of conftest.py around each test      *)
(***************************************************************************)
PageObjectNames == {"login_page", "category_page", "product_page", "page",
                    "page.login_page"}

NoPageObjects == [o \in PageObjectNames |-> 0]

TestClasses == {"TestAddCustomer", "TestCategoryManagement", "TestProductManagement"}

\* self.driver = driver (LoginPage, CategoryPage, ProductPage)
PageInit(obj, driver, nsessions) == [refs |-> {<<obj, driver>>}, created |-> 0]

\* An AddCustomerPage that starts a browser of its own for its LoginPage.
AddCustomerPageInitOwnBrowser(obj, driver, nsessions) ==
    [refs |-> {<<obj, driver>>, <<"page.login_page", nsessions + 1>>}, created |-> 1]

\* AddCustomerPage.__init__: self.driver = driver; self.login_page = LoginPage(driver)
AddCustomerPageInit(obj, driver, nsessions) ==
    [refs |-> {<<obj, driver>>, <<"page.login_page", driver>>}, created |-> 0]

\* Statements of the test bodies
StGet(url) == [s |-> "get", url |-> url]
StNew(obj, cls) == [s |-> "new", obj |-> obj, cls |-> cls]
StCall(obj, op, a, b, cmds) ==
    [s |-> "call", obj |-> obj, op |-> op, a |-> a, b |-> b, cmds |-> cmds]
StAssert(cond) == [s |-> "assert", cond |-> cond]

\* test_login_csv(driver, row)
test_login_csv(row) ==
    LET username == Get(row, StrKey(<<"username">>)).s
        password == Get(row, StrKey(<<"password">>)).s
    IN <<StGet("login"),
         StNew("login_page", "LoginPage"),
         StCall("login_page", "login", username, password, login(username, password)),
         StAssert("dashboard_or_admin")>>

\* TestAddCustomer.test_add_new_customer
test_add_new_customer ==
    <<StNew("page", "AddCustomerPage"),
      StCall("page", "login_admin", <<>>, <<>>, login_admin),
      StCall("page", "navigate_to_add_customer", <<>>, <<>>, navigate_to_add_customer),
      StCall("page", "fill_customer_details", <<"Female">>, <<>>,
             fill_customer_details(TestCustomer.email, TestCustomer.password,
                                   TestCustomer.firstname, TestCustomer.lastname,
                                   "Female", TestCustomer.company, TestCustomer.dob)),
      StCall("page", "save_customer", <<>>, <<>>, save_customer),
      StCall("page", "is_customer_added_successfully", <<>>, <<>>,
             is_customer_added_successfully),
      StAssert("ret")>>

\* TestCategoryManagement.test_category_crud
test_category_crud ==
    <<StGet("login"),
      StNew("login_page", "LoginPage"),
      StCall("login_page", "login", AdminEmail, AdminPassword,
             login(AdminEmail, AdminPassword)),
      StNew("category_page", "CategoryPage"),
      StCall("category_page", "navigate_to_categories", <<>>, <<>>,
             navigate_to_categories),
      StCall("category_page", "add_category", <<"Test Category 123">>, <<>>,
             add_category(<<"Test Category 123">>)),
      StCall("category_page", "is_success_message_displayed", <<>>, <<>>,
             is_success_message_displayed),
      StAssert("ret"),
      StCall("category_page", "edit_category", <<"Test Category 123">>,
             <<"Updated Category 123">>,
             edit_category(<<"Test Category 123">>, <<"Updated Category 123">>)),
      StCall("category_page", "is_success_message_displayed", <<>>, <<>>,
             is_success_message_displayed),
      StAssert("ret")>>

\* TestProductManagement.test_add_product
test_add_product ==
    <<StGet("login"),
      StNew("login_page", "LoginPage"),
      StCall("login_page", "login", AdminEmail, AdminPassword,
             login(AdminEmail, AdminPassword)),
      StNew("product_page", "ProductPage"),
      StCall("product_page", "navigate_to_products", <<>>, <<>>, navigate_to_products),
      StCall("product_page", "add_product", <<"Test Product 123">>, <<"99.99">>,
             add_product(<<"Test Product 123">>, <<"99.99">>)),
      StCall("product_page", "is_success_message_displayed", <<>>, <<>>,
             is_success_message_displayed),
      StAssert("ret")>>

\* The items pytest collects, in run order: parameterized_test.py first (one
\* item per element of test_data, outside any class), then the test classes.
ClassItems ==
    <<[name |-> "test_add_new_customer", cls |-> "TestAddCustomer", row |-> <<>>],
      [name |-> "test_category_crud", cls |-> "TestCategoryManagement", row |-> <<>>],
      [name |-> "test_add_product", cls |-> "TestProductManagement", row |-> <<>>]>>

Items ==
    [i \in 1..Len(paramItems) |->
        [name |-> "test_login_csv", cls |-> "None", row |-> paramItems[i]]]
    \o ClassItems

Body(item) ==
    CASE item.name = "test_login_csv" -> test_login_csv(item.row)
      [] item.name = "test_add_new_customer" -> test_add_new_customer
      [] item.name = "test_category_crud" -> test_category_crud
      [] item.name = "test_add_product" -> test_add_product

\* What the application may do during a call of a run: also be unreachable,
\* or answer the customer form with another message.
RunEnvs ==
    [up : BOOLEAN, prefill : BOOLEAN, optional : SUBSET {DOB_FIELD, COMPANY_FIELD},
     msg : {CustomerAdded, "The customer has been updated successfully."}]

\* the rows of the suite's test_data.csv: credentials, valid or not
CredentialRows == {<<AdminEmail, AdminPassword>>, <<<<"user@example.com">>, <<"secret">>>>}

RunIdle ==
    /\ idx = 1
    /\ pc = "setup"
    /\ step = 1
    /\ sessions = <<>>
    /\ fixtureValue = 0
    /\ clsDriver = [c \in TestClasses |-> 0]
    /\ pageObjects = NoPageObjects
    /\ outcomes = <<>>
    /\ loginLog = <<>>

\* The item ends without teardown: the fixture raised before its yield.
SetupError ==
    /\ outcomes' = Append(outcomes, "error")
    /\ fixtureValue' = 0
    /\ idx' = idx + 1
    /\ pc' = "setup"

\* The test body ends: the fixture's teardown is next.
BodyEnds(outcome) ==
    /\ outcomes' = Append(outcomes, outcome)
    /\ pc' = "teardown"

Advance ==
    IF step = Len(Body(Items[idx]))
        THEN BodyEnds("passed") /\ UNCHANGED step
        ELSE step' = step + 1 /\ UNCHANGED <<outcomes, pc>>

\* conftest.py 14-34: options, service, driver = webdriver.Chrome(...).
\* Either the browser starts, or Chrome() raises and there is no session.
FixtureChrome ==
    /\ pc = "setup"
    /\ idx <= Len(Items)
    /\ \E started \in BOOLEAN :
          IF started
             THEN /\ sessions' = Append(sessions, [state |-> "live", scope |-> idx])
                  /\ fixtureValue' = Len(sessions) + 1
                  /\ browser' = FreshBrowser
                  /\ server' = [server EXCEPT !.auth = FALSE]
                  /\ pc' = "implicitly_wait"
                  /\ UNCHANGED <<idx, outcomes>>
             ELSE /\ SetupError
                  /\ UNCHANGED <<sessions, browser, server>>
    /\ UNCHANGED <<step, clsDriver, pageObjects, loginLog, call, result, csvVars, shopVars>>

\* conftest.py 35: driver.implicitly_wait(10)
FixtureImplicitlyWait ==
    /\ pc = "implicitly_wait"
    /\ pc' = "set_cls"
    /\ UNCHANGED <<idx, step, sessions, fixtureValue, clsDriver, pageObjects,
                   outcomes, loginLog, pageVars, csvVars, shopVars>>

\* request.cls of an item: its class, or None for a function of a module.
RequestCls(item) == item.cls

\* conftest.py 37: request.cls.driver = driver raises AttributeError when
\* request.cls is None; the generator has not reached its yield then, so pytest
\* registers no teardown for it.
SetClsDriver(item) == IF RequestCls(item) = "None" THEN "AttributeError" ELSE "set"

\* conftest.py 37-38: request.cls.driver = driver; yield driver
FixtureSetClsDriver ==
    /\ pc = "set_cls"
    /\ LET item == Items[idx]
           how == SetClsDriver(item)
       IN CASE how = "AttributeError" ->
                  /\ SetupError
                  /\ UNCHANGED <<clsDriver, step, pageObjects>>
            [] how = "set" ->
                  /\ clsDriver' = [clsDriver EXCEPT ![item.cls] = fixtureValue]
                  /\ pc' = "body"
                  /\ step' = 1
                  /\ pageObjects' = NoPageObjects
                  /\ UNCHANGED <<idx, outcomes, fixtureValue>>
    /\ UNCHANGED <<sessions, loginLog, pageVars, csvVars, shopVars>>

Statement == Body(Items[idx])[step]

InBody(kind) == pc = "body" /\ idx <= Len(Items) /\ Statement.s = kind

\* driver.get(...) in a test body
TestDriverGet ==
    /\ InBody("get")
    /\ \E env \in RunEnvs :
          \E w \in {Run(<<DriverGet(Statement.url)>>, env)} :
             /\ browser' = w.br
             /\ server' = w.sv
    /\ Advance
    /\ UNCHANGED <<idx, sessions, fixtureValue, clsDriver, pageObjects, loginLog,
                   call, result, csvVars, shopVars>>

Construct(obj, cls, driver, nsessions) ==
    IF cls = "AddCustomerPage" THEN AddCustomerPageInit(obj, driver, nsessions)
    ELSE PageInit(obj, driver, nsessions)

\* a page object built around the fixture's driver
TestConstruct ==
    /\ InBody("new")
    /\ \E c \in {Construct(Statement.obj, Statement.cls, fixtureValue, Len(sessions))} :
          /\ pageObjects' = [o \in PageObjectNames |->
                                IF \E r \in c.refs : r[1] = o
                                    THEN (CHOOSE r \in c.refs : r[1] = o)[2]
                                    ELSE pageObjects[o]]
          /\ sessions' = IF c.created = 0 THEN sessions
                         ELSE Append(sessions, [state |-> "live", scope |-> idx])
    /\ Advance
    /\ UNCHANGED <<idx, fixtureValue, clsDriver, loginLog, pageVars, csvVars, shopVars>>

\* a page-object method called in a test body; an exception ends the test
TestCall ==
    /\ InBody("call")
    /\ \E env \in RunEnvs :
          \E w \in {Run(Statement.cmds, env)} :
             /\ browser' = w.br
             /\ server' = w.sv
             /\ call' = Called(Statement.op, Statement.a, Statement.b)
             /\ result' = [exc |-> w.exc, ret |-> w.ret, printed |-> w.printed,
                           submitted |-> w.submitted]
             /\ IF w.exc = "none" THEN Advance
                ELSE BodyEnds("failed: exception") /\ UNCHANGED step
    /\ loginLog' = IF Items[idx].name = "test_login_csv"
                      THEN Append(loginLog, <<Statement.a, Statement.b>>)
                      ELSE loginLog
    /\ UNCHANGED <<idx, sessions, fixtureValue, clsDriver, pageObjects, csvVars, shopVars>>

AssertHolds(cond) ==
    IF cond = "ret" THEN result.ret = "True"
    ELSE \/ Contains(<<"Dashboard">>, Title(browser.page))
         \/ Contains(<<"admin">>, CurrentUrl(browser.page))

\* an assert of a test body
TestAssert ==
    /\ InBody("assert")
    /\ IF AssertHolds(Statement.cond) THEN Advance
       ELSE BodyEnds("failed: assertion") /\ UNCHANGED step
    /\ UNCHANGED <<idx, sessions, fixtureValue, clsDriver, pageObjects, loginLog,
                   pageVars, csvVars, shopVars>>

\* conftest.py 39: driver.quit(), run by pytest after the test whatever its outcome
FixtureTeardown ==
    /\ pc = "teardown"
    /\ sessions' = [sessions EXCEPT ![fixtureValue].state = "quit"]
    /\ fixtureValue' = 0
    /\ pageObjects' = NoPageObjects
    /\ idx' = idx + 1
    /\ pc' = "setup"
    /\ UNCHANGED <<step, clsDriver, outcomes, loginLog, pageVars, csvVars, shopVars>>

\* no item is left
RunDone ==
    /\ pc = "setup"
    /\ idx > Len(Items)
    /\ pc' = "done"
    /\ UNCHANGED <<idx, step, sessions, fixtureValue, clsDriver, pageObjects,
                   outcomes, loginLog, pageVars, csvVars, shopVars>>

(***************************************************************************)
(* The files the data feed is run on                                       *)
(***************************************************************************)
RawSymbols == {"a", COMMA, QUOTE, LF}

RawFiles == {HeaderLine \o body : body \in SeqsUpTo(RawSymbols, MaxBodyLen)}

Values == {<<>>, <<"a">>, <<"b", COMMA>>, <<QUOTE, "a">>, <<LF>>, <<CR, "b">>}

DataRows == {<<u, p>> : u \in Values, p \in Values}

CsvIdle ==
    /\ origin = "absent"
    /\ file = [exists |-> FALSE, text |-> <<>>]
    /\ rowsWritten = <<>>
    /\ csvPc = "import"
    /\ test_data = <<>>
    /\ importExc = "none"
    /\ paramItems = <<>>

CsvInit ==
    /\ PageIdle
    /\ RunIdle
    /\ ShopIdle
    /\ \/ /\ origin = "absent"
          /\ file = [exists |-> FALSE, text |-> <<>>]
          /\ rowsWritten = <<>>
       \/ /\ origin = "raw"
          /\ \E t \in RawFiles : file = [exists |-> TRUE, text |-> t]
          /\ rowsWritten = <<>>
       \/ /\ origin = "written"
          /\ rowsWritten \in SeqsUpTo(DataRows, MaxRows)
          /\ file = [exists |-> TRUE, text |-> WriteFile(rowsWritten)]
    /\ csvPc = "import"
    /\ test_data = <<>>
    /\ importExc = "none"
    /\ paramItems = <<>>

\* parameterized_test.py, module level: test_data = CSVUtils.read_data(csv_file).
\* An exception here ends the import: the module is not collected.
ImportTestData ==
    /\ csvPc = "import"
    /\ LET r == read_data(file)
       IN /\ importExc' = r.exc
          /\ test_data' = r.data
          /\ csvPc' = IF r.exc = "none" THEN "loaded" ELSE "aborted"
    /\ UNCHANGED <<file, rowsWritten, origin, paramItems>>
    /\ UNCHANGED <<pageVars, runVars, shopVars>>

\* @pytest.mark.parametrize("row", test_data): one test instance per element,
\* in list order.
Parametrize ==
    /\ csvPc = "loaded"
    /\ paramItems' = test_data
    /\ csvPc' = "collected"
    /\ UNCHANGED <<file, rowsWritten, origin, test_data, importExc>>
    /\ UNCHANGED <<pageVars, runVars, shopVars>>

CsvNext == ImportTestData \/ Parametrize

SpecCSV == CsvInit /\ [][CsvNext]_vars

(***************************************************************************)
(* A pytest run of the suite                                               *)
(***************************************************************************)
RunInit ==
    /\ rowsWritten \in SeqsUpTo(CredentialRows, MaxRows)
    /\ origin = "written"
    /\ file = [exists |-> TRUE, text |-> WriteFile(rowsWritten)]
    /\ test_data = read_data(file).data
    /\ importExc = "none"
    /\ paramItems = test_data
    /\ csvPc = "collected"
    /\ PageIdle
    /\ RunIdle
    /\ ShopIdle

RunNext ==
    \/ FixtureChrome
    \/ FixtureImplicitlyWait
    \/ FixtureSetClsDriver
    \/ TestDriverGet
    \/ TestConstruct
    \/ TestCall
    \/ TestAssert
    \/ FixtureTeardown
    \/ RunDone

SpecRun == RunInit /\ [][RunNext]_vars

(***************************************************************************)
(* Page objects on one live session, called in any order                   *)
(***************************************************************************)
Init ==
    /\ CsvIdle
    /\ RunIdle
    /\ ShopIdle
    /\ browser = FreshBrowser
    /\ server = [auth |-> FALSE, categories |-> <<>>]
    /\ call = NoCall
    /\ result = NoResult

Next ==
    \/ OpenLoginPage
    \/ Login
    \/ Logout
    \/ LoginAdmin
    \/ NavigateToCategories
    \/ NavigateToProducts
    \/ AddProduct
    \/ IsSuccessMessageDisplayed
    \/ NavigateToAddCustomer
    \/ FillCustomerDetails
    \/ SaveCustomer
    \/ IsCustomerAddedSuccessfully

Spec == Init /\ [][Next]_vars

(***************************************************************************)
(* The category page on one live session, over every category table        *)
(***************************************************************************)
CategoryInit ==
    /\ CsvIdle
    /\ RunIdle
    /\ ShopIdle
    /\ browser = FreshBrowser
    /\ \E cats \in SeqsUpTo(CategoryNames, MaxCategories) :
          server = [auth |-> FALSE, categories |-> cats]
    /\ call = NoCall
    /\ result = NoResult

CategoryNext ==
    \/ LoginAdmin
    \/ Logout
    \/ NavigateToCategories
    \/ AddCategory
    \/ EditCategory
    \/ IsSuccessMessageDisplayed

SpecCategory == CategoryInit /\ [][CategoryNext]_vars

\* The two forms whose fields come filled in: the login form and the form
\* that edits a category, over a table that already has rows.
FormsNext ==
    \/ OpenLoginPage
    \/ Login
    \/ NavigateToCategories
    \/ EditCategory

SpecForms == CategoryInit /\ [][FormsNext]_vars

(***************************************************************************)
(* Products built and repriced; orders priced and checked out              *)
(***************************************************************************)
ProductsInit ==
    /\ CsvIdle
    /\ PageIdle
    /\ RunIdle
    /\ ShopIdle

ProductsNext ==
    \/ NewPhysicalProduct
    \/ NewDigitalProduct
    \/ SetPrice

SpecProducts == ProductsInit /\ [][ProductsNext]_vars

OrdersInit ==
    /\ CsvIdle
    /\ PageIdle
    /\ RunIdle
    /\ products = Catalogue
    /\ \E items \in SeqsUpTo(OrderItems, MaxItems) :
          order = [order_id |-> "ORD1", items |-> items]
    /\ service \in Services
    /\ shopCall = NoShopCall
    /\ shopRet = NoShopRet
    /\ callsMade = <<>>

OrdersNext ==
    \/ ComputeTotal
    \/ Checkout

SpecOrders == OrdersInit /\ [][OrdersNext]_vars

(***************************************************************************)
(* Claims about the data feed                                              *)
(***************************************************************************)
Malformed(f) == f.exists /\ (UnterminatedQuote(f.text) \/ RaggedRow(f.text))

HasNone(d) == \E i \in 1..Len(d) : d[i].k = NoneKey \/ d[i].v = NoneVal

\* C7 (as stated): once the import of parameterized_test.py has run on an absent
\* or malformed row-data file, read_data has raised and no test instance exists.
C7_FailsOnAbsentOrMalformed ==
    (csvPc # "import" /\ (~file.exists \/ Malformed(file)))
        => (importExc # "none" /\ csvPc = "aborted" /\ paramItems = <<>>)

\* C7 (amended): read_data raises exactly when the file is absent
\* (FileNotFoundError, and then no test instance exists).  On a malformed file
\* it returns a list of mappings: a row whose column count differs from the
\* header's yields a mapping with None as a value (missing columns) or the
\* key None (extra columns), and the scenario is parameterized with that list.
C7_FailsOnlyOnAbsent ==
    csvPc # "import" =>
        /\ ~file.exists =>
              importExc = "FileNotFoundError" /\ csvPc = "aborted" /\ paramItems = <<>>
        /\ Malformed(file) =>
              /\ importExc = "none" /\ csvPc \in {"loaded", "collected"}
              /\ RaggedRow(file.text) => \E i \in 1..Len(test_data) : HasNone(test_data[i])
              /\ csvPc = "collected" => paramItems = test_data

C7_Witness ==
    /\ csvPc = "collected" /\ origin = "raw"
    /\ UnterminatedQuote(file.text) /\ RaggedRow(file.text)
    /\ Len(paramItems) = 1

\* C8: a file written from N rows under the header username,password reads back
\* as exactly N mappings, in row order, each with exactly the keys username and
\* password bound to the values of its row.
C8_RoundTrip ==
    (origin = "written" /\ csvPc # "import") =>
        /\ importExc = "none"
        /\ Len(test_data) = Len(rowsWritten)
        /\ \A i \in 1..Len(test_data) :
              /\ Len(test_data[i]) = 2
              /\ HasKey(test_data[i], StrKey(<<"username">>))
              /\ HasKey(test_data[i], StrKey(<<"password">>))
              /\ Get(test_data[i], StrKey(<<"username">>)) = StrVal(rowsWritten[i][1])
              /\ Get(test_data[i], StrKey(<<"password">>)) = StrVal(rowsWritten[i][2])

C8_Witness ==
    /\ origin = "written" /\ csvPc = "collected"
    /\ Len(rowsWritten) = 2
    /\ rowsWritten[1] # rowsWritten[2]
    /\ NeedsQuote(rowsWritten[1][1]) /\ NeedsQuote(rowsWritten[2][2])

(***************************************************************************)
(* Claims about the page objects                                           *)
(***************************************************************************)
Returned(op) == call.op = op /\ result.exc = "none"

\* C3: login returns normally only with "Dashboard" in the page title, so that
\* is_logged_in() is true right after; with credentials the application
\* rejects it never returns normally, and once they were submitted it ends in
\* the TimeoutException of its bounded wait.
C3_LoginReturnsOnlyOnDashboard ==
    call.op = "login" =>
        /\ result.exc = "none" =>
              /\ Contains(<<"Dashboard">>, Title(browser.page))
              /\ is_logged_in(browser)
        /\ <<call.a, call.b>> \notin ValidCredentials =>
              /\ result.exc # "none"
              /\ result.submitted # <<>> => result.exc = "TimeoutException"

C3_Witness ==
    /\ call.op = "login"
    /\ <<call.a, call.b>> \notin ValidCredentials
    /\ result.submitted # <<>>
    /\ result.exc = "TimeoutException"
    /\ ~is_logged_in(browser)

\* C4: the session becomes authenticated only by a login that returns normally
\* and then shows is_logged_in(); a logout that returns normally started
\* authenticated and leaves the application unauthenticated, with
\* is_logged_out() true and is_logged_in() false; nothing else changes the
\* authentication state.
C4_AuthenticationCycle ==
    [][ /\ (call'.op \in {"login", "login_admin"} /\ result'.exc = "none") =>
                (server'.auth /\ is_logged_in(browser') /\ ~is_logged_out(browser'))
        /\ (call'.op = "logout" /\ result'.exc = "none") =>
                /\ server.auth /\ ~server'.auth
                /\ is_logged_out(browser') /\ ~is_logged_in(browser')
        /\ (~server.auth /\ server'.auth) =>
                (call'.op \in {"login", "login_admin"} /\ result'.exc = "none")
        /\ (server.auth /\ ~server'.auth) =>
                (call'.op = "logout" /\ result'.exc = "none")
      ]_vars

C4_Witness ==
    /\ Returned("logout")
    /\ ~server.auth
    /\ is_logged_out(browser) /\ ~is_logged_in(browser)

DobSkipped == "DOB field not visible, skipping DOB input."
CompanySkipped == "Company field not visible, skipping Company input."

\* C6: on the customer form, fill_customer_details never raises; it types
\* email, password, first name and last name after what the fields held, picks
\* the gender, types each optional field that is visible, and for each optional
\* field that is not visible prints its skip message and leaves it alone.
C6_FillSkipsAbsentOptionalFields ==
    [][ (call'.op = "fill_customer_details" /\ browser.page = "customerCreate") =>
          /\ result'.exc = "none"
          /\ browser'.page = "customerCreate"
          /\ browser'.fields[EMAIL_FIELD] = browser.fields[EMAIL_FIELD] \o TestCustomer.email
          /\ browser'.fields[PASSWORD_FIELD] =
                browser.fields[PASSWORD_FIELD] \o TestCustomer.password
          /\ browser'.fields[FIRSTNAME_FIELD] =
                browser.fields[FIRSTNAME_FIELD] \o TestCustomer.firstname
          /\ browser'.fields[LASTNAME_FIELD] =
                browser.fields[LASTNAME_FIELD] \o TestCustomer.lastname
          /\ browser'.gender = call'.a[1]
          /\ IF DOB_FIELD \in browser.optional
                THEN /\ browser'.fields[DOB_FIELD] = browser.fields[DOB_FIELD] \o TestCustomer.dob
                     /\ \A i \in 1..Len(result'.printed) : result'.printed[i] # DobSkipped
                ELSE /\ browser'.fields[DOB_FIELD] = <<>>
                     /\ \E i \in 1..Len(result'.printed) : result'.printed[i] = DobSkipped
          /\ IF COMPANY_FIELD \in browser.optional
                THEN /\ browser'.fields[COMPANY_FIELD] =
                            browser.fields[COMPANY_FIELD] \o TestCustomer.company
                     /\ \A i \in 1..Len(result'.printed) : result'.printed[i] # CompanySkipped
                ELSE /\ browser'.fields[COMPANY_FIELD] = <<>>
                     /\ \E i \in 1..Len(result'.printed) : result'.printed[i] = CompanySkipped
      ]_vars

C6_Witness ==
    /\ Returned("fill_customer_details")
    /\ browser.page = "customerCreate"
    /\ browser.optional = {COMPANY_FIELD}
    /\ browser.fields[COMPANY_FIELD] = TestCustomer.company
    /\ browser.fields[DOB_FIELD] = <<>>
    /\ result.printed = <<DobSkipped>>

NavigationOps == {"navigate_to_categories", "navigate_to_products",
                  "navigate_to_add_customer"}

\* C10: a navigation method called on an unauthenticated session ends in a
\* TimeoutException and leaves the application state as it was.
C10_NavigationUnauthenticatedTimesOut ==
    [][ (call'.op \in NavigationOps /\ ~server.auth) =>
            (result'.exc = "TimeoutException" /\ server' = server) ]_vars

C10_Witness ==
    /\ call.op = "navigate_to_categories"
    /\ result.exc = "TimeoutException"
    /\ ~server.auth
    /\ browser.page = "login"

(***************************************************************************)
(* Claims about the category page                                          *)
(***************************************************************************)
RowsNamed(cats, name) == {i \in 1..Len(cats) : cats[i] = name}

\* C9: edit_category(old, new) called with the category table shown: when
\* exactly one row has the text old, that row is renamed to new and every other
\* row is unchanged; when no row has it, the call raises and changes no row.
C9_EditChangesExactlyTheRow ==
    [][ (call'.op = "edit_category" /\ browser.page = "categoryList") =>
          LET rows == RowsNamed(server.categories, call'.a)
          IN /\ Cardinality(rows) = 1 =>
                    server'.categories =
                        [i \in 1..Len(server.categories) |->
                            IF i \in rows THEN call'.b ELSE server.categories[i]]
             /\ rows = {} =>
                    (result'.exc # "none" /\ server'.categories = server.categories)
      ]_vars

\* a call on a table whose only matching row has an apostrophe in its name
C9_Witness ==
    /\ call.op = "edit_category"
    /\ browser.page = "categoryList"
    /\ Contains(<<APOSTROPHE>>, call.a)
    /\ Cardinality(RowsNamed(server.categories, call.a)) = 1
    /\ result.exc = "InvalidSelectorException"

(***************************************************************************)
(* The driver fixture and the parameterized scenario                       *)
(***************************************************************************)
SessionIds == 1..(MaxRows + Len(ClassItems))

Started(i) == i <= Len(sessions)

Released(i) == Started(i) /\ sessions[i].state = "quit"

\* C1: every browser session the driver fixture starts is eventually
\* released (driver.quit is called on it), whether the scenario using it
\* passes, fails an assertion or raises.  A run is finite and nothing
\* happens after its last item, so "eventually" is "by the end of the run".
C1_EverySessionReleased ==
    pc = "done" => \A i \in SessionIds : Started(i) => Released(i)

\* The run is over and the browser started for a row of test_login_csv was
\* never quit, while the browsers of the test classes were.
C1_Witness ==
    /\ pc = "done"
    /\ \E i \in SessionIds :
          /\ Started(i)
          /\ sessions[i].state = "live"
          /\ Items[sessions[i].scope].name = "test_login_csv"
          /\ outcomes[sessions[i].scope] = "error"
    /\ \E i \in SessionIds : Released(i)

Credentials(row) ==
    <<Get(row, StrKey(<<"username">>)).s, Get(row, StrKey(<<"password">>)).s>>

BrowserStartedFor(i) == \E k \in SessionIds : Started(k) /\ sessions[k].scope = i

RECURSIVE RowsWithBrowser(_)
RowsWithBrowser(n) ==
    IF n = 0 THEN <<>>
    ELSE RowsWithBrowser(n - 1)
            \o (IF BrowserStartedFor(n) THEN <<Credentials(test_data[n])>> ELSE <<>>)

\* C2: for a file of N rows the parameterized login scenario runs N times,
\* once per row in file order, each run performing login with the row's
\* username and password, whatever the outcome of the other rows.  A run
\* whose browser could not be started has no session to log in with; every
\* other row's run logs in.
C2_EveryRowLogsIn ==
    pc = "done" =>
        /\ Len(outcomes) = Len(Items)
        /\ loginLog = RowsWithBrowser(Len(test_data))

\* The run of a file of MaxRows rows is over: one item per row was run and
\* each ended in the fixture, before login was called.
C2_Witness ==
    /\ pc = "done"
    /\ Len(test_data) = MaxRows
    /\ \A i \in 1..Len(test_data) : BrowserStartedFor(i) /\ outcomes[i] = "error"
    /\ loginLog = <<>>

InClassScope == pc \in {"body", "teardown"} /\ Items[idx].cls \in TestClasses

\* C5: in a test-class scope exactly one session is live: the one the
\* fixture created for the class; the class attribute and every page object
\* built in the scope (the LoginPage inside AddCustomerPage too) hold that
\* session, and no page object starts or replaces a session.
C5_OneSessionPerClassScope ==
    InClassScope =>
        /\ Cardinality({i \in SessionIds : Started(i) /\ sessions[i].scope = idx}) = 1
        /\ Started(fixtureValue)
        /\ sessions[fixtureValue] = [state |-> "live", scope |-> idx]
        /\ clsDriver[Items[idx].cls] = fixtureValue
        /\ \A o \in PageObjectNames : pageObjects[o] \in {0, fixtureValue}
        /\ \A i \in SessionIds :
              (Started(i) /\ Items[sessions[i].scope].cls \in TestClasses
                 /\ sessions[i].state = "live") => i = fixtureValue

\* test_add_new_customer has logged in through the LoginPage composed
\* inside its AddCustomerPage.
C5_Witness ==
    /\ InClassScope
    /\ Items[idx].name = "test_add_new_customer"
    /\ call.op = "login_admin"
    /\ fixtureValue # 0
    /\ pageObjects["page"] = fixtureValue
    /\ pageObjects["page.login_page"] = fixtureValue
    /\ browser.page = "dashboard"

(***************************************************************************)
(* Clear before fill                                                       *)
(***************************************************************************)
Submits(form) == {i \in 1..Len(result.submitted) : result.submitted[i].form = form}

\* C14: when login submits, the email and password fields hold exactly the
\* email and password it was given, whatever the login page came filled in
\* with; when edit_category submits, the name field holds exactly new_name,
\* not the old name followed by it.
C14_ClearBeforeFill ==
    /\ call.op = "login" =>
            \A i \in Submits("login") :
                /\ result.submitted[i].email = call.a
                /\ result.submitted[i].password = call.b
    /\ call.op = "edit_category" =>
            \A i \in Submits("categoryEdit") : result.submitted[i].name = call.b

\* edit_category has opened the form of a row, which comes filled in with
\* the row's name, and has submitted another name for it.
C14_Witness ==
    /\ call.op = "edit_category"
    /\ result.exc = "none"
    /\ call.a # call.b
    /\ Submits("categoryEdit") # {}
    /\ \E i \in 1..Len(server.categories) : server.categories[i] = call.b

(***************************************************************************)
(* Claims about pricing and checkout                                       *)
(***************************************************************************)
RECURSIVE SumPriceTimesQuantity(_, _)
\* the sum over the items of unit price x quantity, in cents
SumPriceTimesQuantity(items, prods) ==
    IF items = <<>> THEN Val(0)
    ELSE Add(Mul(prods[Head(items).product].price, Head(items).quantity),
             SumPriceTimesQuantity(Tail(items), prods))

\* C11: for every order, discount strategy and shipping service,
\* compute_total returns subtotal = the sum over the items of unit price x
\* quantity, discounted_subtotal = the strategy applied to that subtotal,
\* shipping_cost = the service's cost for the order, and grand_total =
\* discounted_subtotal + shipping_cost.
C11_ComputeTotal ==
    shopCall.op = "compute_total" =>
        LET p == shopRet.pricing
        IN /\ p.subtotal = SumPriceTimesQuantity(order.items, products)
           /\ \E tie \in Ties :
                 p.discounted_subtotal = apply(service.discount_strategy, p.subtotal, tie)
           /\ \E tie \in Ties :
                 p.shipping_cost = cost(service.shipping_service, order, products, tie)
           /\ p.grand_total = Add(p.discounted_subtotal, p.shipping_cost)
           /\ p.shipping_method = service.shipping_service

\* an order of two items, priced with a discount that changes the subtotal
C11_Witness ==
    /\ shopCall.op = "compute_total"
    /\ Len(order.items) = MaxItems
    /\ ~shopRet.pricing.subtotal.nan
    /\ shopRet.pricing.subtotal.n > 0
    /\ shopRet.pricing.discounted_subtotal # shopRet.pricing.subtotal
    /\ TotalWeight(order.items, products).n > 0
    /\ shopRet.pricing.grand_total.n =
            shopRet.pricing.discounted_subtotal.n + shopRet.pricing.shipping_cost.n

\* d is x reduced by percent, to the cent: 100 d is within half a cent of
\* (100 - percent) x
ReducedBy(percent, x, d) ==
    IF x.nan \/ d.nan THEN x.nan /\ d.nan
    ELSE LET diff == 100 * d.n - (100 - percent) * x.n
         IN 0 - 50 <= diff /\ diff <= 50

TenPercentOff == service.discount_strategy = PercentageDiscount(10)

\* C12: a 10% percentage discount yields a discounted subtotal equal to the
\* subtotal reduced by exactly 10% (to 2 decimals) and never below 0, for
\* every order that can be built, whatever its items and quantities.
C12_TenPercentOffNeverBelowZero ==
    (shopCall.op = "compute_total" /\ TenPercentOff) =>
        /\ ReducedBy(10, shopRet.pricing.subtotal, shopRet.pricing.discounted_subtotal)
        /\ ~Lt0(shopRet.pricing.discounted_subtotal)

\* an order with a negative quantity has been priced with 10% off
C12_Witness ==
    /\ shopCall.op = "compute_total"
    /\ TenPercentOff
    /\ \E i \in 1..Len(order.items) : order.items[i].quantity < 0
    /\ Lt0(shopRet.pricing.subtotal)
    /\ Lt0(shopRet.pricing.discounted_subtotal)

CallsOf(f) == {i \in 1..Len(callsMade) : callsMade[i].f = f}

\* C13: each checkout computes the pricing record once and then calls
\* process_payment exactly once, with the grand_total of the record it
\* returns; the returned record carries the computed subtotal,
\* discounted_subtotal, shipping_cost, grand_total and shipping_method, and
\* the order's items are unchanged.
C13_CheckoutPaysGrandTotalOnce ==
    [][ shopCall'.op = "checkout" =>
          /\ Cardinality(CallsOf("compute_total")') = 1
          /\ Cardinality(CallsOf("process_payment")') = 1
          /\ \A i \in CallsOf("compute_total")', j \in CallsOf("process_payment")' :
                /\ i < j
                /\ callsMade'[j].amount = shopRet'.pricing.grand_total
          /\ \E tie \in Ties :
                shopRet'.pricing = compute_total(service, order, products, tie)
          /\ shopRet'.order_id = order.order_id
          /\ order'.items = order.items
          /\ products' = products
      ]_vars

\* a checkout of an order with items, paid through Stripe, whose discount
\* and shipping both count in the amount
C13_Witness ==
    /\ shopCall.op = "checkout"
    /\ service.payment_gateway = "Stripe"
    /\ Len(order.items) > 0
    /\ \E j \in CallsOf("process_payment") :
          /\ callsMade[j].amount = shopRet.pricing.grand_total
          /\ callsMade[j].amount # shopRet.pricing.subtotal
          /\ callsMade[j].amount # shopRet.pricing.discounted_subtotal
          /\ ~callsMade[j].amount.nan

(***************************************************************************)
(* Claims about products                                                   *)
(***************************************************************************)
\* C15: after any sequence of constructions and price assignments every
\* product has price >= 0 and the SKU it was constructed with; assigning a
\* negative price raises ValueError and leaves the price unchanged; a
\* constructor call with an invalid SKU or a negative price raises
\* ValueError and yields no product.
C15_ProductsStayValid ==
    [][ /\ \A i \in 1..Len(products') : Geq0(products'[i].price)
        /\ \A i \in 1..Len(products) :
              i <= Len(products') /\ products'[i].sku = products[i].sku
        /\ (shopCall'.op = "new" /\ shopCall'.exc = "none") =>
              /\ Len(products') = Len(products) + 1
              /\ products'[Len(products')].sku = shopCall'.sku
        /\ (shopCall'.op = "new"
              /\ (~validate_sku(shopCall'.sku) \/ Lt0(shopCall'.v))) =>
              (shopCall'.exc = "ValueError" /\ products' = products)
        /\ (shopCall'.op = "set_price" /\ Lt0(shopCall'.v)) =>
              (shopCall'.exc = "ValueError" /\ products' = products)
      ]_vars

\* a product exists whose price is not a number: it was constructed with
\* that price, or assigned it
C15_Witness ==
    /\ shopCall.op \in {"new", "set_price"}
    /\ shopCall.exc = "none"
    /\ shopCall.v = NaN
    /\ products[shopCall.id].price = NaN
    /\ ~Geq0(products[shopCall.id].price)

====
